---- MODULE Spec2Model ----
(***************************************************************************)
(* Model of the project review agent (src/src/agent.ts) together with the  *)
(* oracle client (services/llmService, src/unnamed/part_003) and the file  *)
(* utilities (utils/fileUtils, src/unnamed/part_005; utils/codeUtils,      *)
(* src/unnamed/part_004).                                                  *)
(*                                                                         *)
(* One run of ProjectReviewAgent.run() is a single sequential process; pc  *)
(* is its position, and every await of run()/reviewFiles() is a step.      *)
(* The external collaborators (code2prompt, cloc, the file system and the  *)
(* LLM) are nondeterministic inputs drawn from small sets.                 *)
(***************************************************************************)
EXTENDS Integers, Sequences, FiniteSets, TLC

(***************************************************************************)
(* Bounds of the model.                                                    *)
(***************************************************************************)
\* longest key-file list the ranking oracle returns in the model
MaxSeeds == 2
\* longest list of related files one suggestion call returns in the model
MaxSuggest == 2
\* largest value of maxFilesToReview explored (the field's default is 50)
MaxBudget == 2

\* how far around each size threshold the line counts are explored
SizeMargin == 40

\* relative paths the oracle, the tree and the disk may mention; "" is the
\* empty string, which JavaScript treats as falsy
Paths == {"", "a.py", "b.py"}
\* paths the structure provider can enumerate
TreeCandidates == {"a.py"}

\* importance scores of the key-file schema (schemas/index.ts:29)
MinImportance == 1
MaxImportance == 10
Importances == {MinImportance, MaxImportance}

\* the size ceiling of reviewFiles, in bytes (agent.ts:199)
SizeLimit == 1000000
FileSizes == {SizeLimit, SizeLimit + 1}

\* thresholds of the size category (fileUtils getProjectSize)
MediumAbove == 1000
LargeAbove == 10000
ClocTotals == {LargeAbove + 1}

VARIABLES
    pc,                 \* position of run()
    maxFilesToReview,   \* agent.ts:41
    provider,           \* what code2prompt answered in this run
    projectStructure,   \* agent.ts:36
    projectInfo,        \* agent.ts:37
    keyFiles,           \* agent.ts:38
    reviewResults,      \* agent.ts:39, the Run Ledger
    projectSize,        \* agent.ts:40
    reviewedFiles,      \* agent.ts:166, the VisitedSet
    filesToReview,      \* agent.ts:170, the Frontier
    filePath,           \* agent.ts:173, the path of the current cycle
    oracleCalls,        \* every LLM invocation made so far, in order
    llm,                \* how the LLM invocation of the last step ended
    stat,               \* what the disk answered about the path of the cycle
    skipped,            \* admitted paths whose cycle ended without a review
    entered,            \* the paths put into the Frontier, in order of entry
    finalReport,        \* the report handed to saveFinalReport
    runError            \* the error run() rejected with, "" while none

vars == <<pc, maxFilesToReview, provider, projectStructure, projectInfo,
          keyFiles, reviewResults, projectSize, reviewedFiles, filesToReview,
          filePath, oracleCalls, llm, stat, skipped, entered, finalReport,
          runError>>

(***************************************************************************)
(* Generic helpers on sequences.                                           *)
(***************************************************************************)
Range(s) == {s[i] : i \in DOMAIN s}

\* all sequences over S of length at most n
RECURSIVE SeqsUpTo(_, _)
SeqsUpTo(S, n) ==
    IF n = 0 THEN {<<>>}
    ELSE LET shorter == SeqsUpTo(S, n - 1)
         IN  shorter \cup {Append(s, x) : s \in {t \in shorter : Len(t) = n - 1}, x \in S}

(***************************************************************************)
(* The LLM.  One invocation either resolves with a structured result or    *)
(* throws an error that may carry the raw text the model produced          *)
(* (error.llmOutput).  The raw text is described by what the clean-up of   *)
(* parseLLMOutput looks at: a markdown fence, trailing commas, prose       *)
(* around the object, and whether the remaining body is a JSON object.     *)
(***************************************************************************)
InfoFields == {"type", "technologies", "frameworks", "description"}
ReviewFields == {"path", "codeQuality", "issues", "strengths", "recommendations"}
SummaryFields == {"projectPurpose", "mainFunctionalities", "issues", "strengths",
                  "recommendations"}

\* a parsed JSON object: the fields it has, and the values of the two
\* fields whose content the agent looks at
NoObj == [fields |-> {}, path |-> "", files |-> <<>>]

Obj(fields, path, files) == [fields |-> fields, path |-> path, files |-> files]

NoOutput ==
    [present |-> FALSE, isString |-> FALSE, fenced |-> FALSE,
     trailingComma |-> FALSE, prose |-> FALSE, body |-> "garbage", obj |-> NoObj]

\* the raw outputs: no text, an empty object value, a string that holds
\* one of objs wrapped in a fence and prose with trailing commas, and a
\* string without any object
RawOutputs(objs) ==
    {NoOutput,
     [present |-> TRUE, isString |-> FALSE, fenced |-> FALSE,
      trailingComma |-> FALSE, prose |-> FALSE, body |-> "object", obj |-> NoObj]}
    \cup {[present |-> TRUE, isString |-> TRUE, fenced |-> TRUE,
           trailingComma |-> TRUE, prose |-> TRUE, body |-> "object", obj |-> o]
          : o \in objs}
    \cup {[present |-> TRUE, isString |-> TRUE, fenced |-> FALSE,
           trailingComma |-> FALSE, prose |-> TRUE, body |-> "garbage", obj |-> NoObj]}

\* part_003:39  remove markdown code fences
stripFence(raw) == [raw EXCEPT !.fenced = FALSE]
\* part_003:42  remove trailing commas
stripTrailingCommas(raw) == [raw EXCEPT !.trailingComma = FALSE]
\* part_003:45-48  keep the text from the first "{" to the last "}"
extractObject(raw) ==
    IF raw.body = "object" THEN [raw EXCEPT !.prose = FALSE] ELSE raw
\* JSON.parse succeeds on a clean object literal only
jsonParses(raw) ==
    raw.body = "object" /\ ~raw.fenced /\ ~raw.trailingComma /\ ~raw.prose

Null == [isNull |-> TRUE, obj |-> NoObj]

\* part_003:28-61
parseLLMOutput(llmOutput) ==
    IF ~llmOutput.present THEN Null
    ELSE IF ~llmOutput.isString THEN [isNull |-> FALSE, obj |-> llmOutput.obj]
    ELSE LET rawOutput == extractObject(stripTrailingCommas(stripFence(llmOutput)))
         IN  IF jsonParses(rawOutput)
             THEN [isNull |-> FALSE, obj |-> rawOutput.obj]
             ELSE Null

(***************************************************************************)
(* identifyProjectType (part_003:81-133).                                  *)
(***************************************************************************)
NullInfo ==
    [isNull |-> TRUE, fields |-> {}, type |-> "", technologies |-> <<>>,
     description |-> ""]

\* what a conforming classification looks like; technologies are kept by
\* their type tag
LlmInfo ==
    [isNull |-> FALSE, fields |-> InfoFields, type |-> "CLI Tool",
     technologies |-> <<"language", "library">>,
     description |-> "reviews projects"]

\* part_003:126-131
DefaultInfo ==
    [isNull |-> FALSE, fields |-> InfoFields, type |-> "Unknown",
     technologies |-> <<>>,
     description |-> "Failed to analyze the project due to an error."]

\* a recovered object used as a ProjectInfo (part_003:122 returns it as is)
ObjAsInfo(o) ==
    [isNull |-> FALSE, fields |-> o.fields \cap InfoFields,
     type |-> IF "type" \in o.fields THEN LlmInfo.type ELSE "",
     technologies |-> IF "technologies" \in o.fields THEN LlmInfo.technologies ELSE <<>>,
     description |-> IF "description" \in o.fields THEN LlmInfo.description ELSE ""]

InfoObjs == {Obj(f, "", <<>>) : f \in {{}, InfoFields}}

InfoResponses ==
    {[threw |-> FALSE, result |-> LlmInfo, llmOutput |-> NoOutput]}
    \cup {[threw |-> TRUE, result |-> NullInfo, llmOutput |-> raw]
          : raw \in RawOutputs(InfoObjs)}

identifyProjectType(resp) ==
    IF ~resp.threw THEN resp.result
    ELSE LET parsedOutput == parseLLMOutput(resp.llmOutput)
         IN  IF ~parsedOutput.isNull THEN ObjAsInfo(parsedOutput.obj)
             ELSE DefaultInfo

(***************************************************************************)
(* identifyKeyFiles (part_003:135-189).                                    *)
(***************************************************************************)
KeyFile(path, importance) == [path |-> path, importance |-> importance]

\* the key-file lists the ranking oracle answers with; the same path may
\* come more than once.  Every file has the highest importance here; lists
\* of mixed importance are those of ScenarioKeyFilesResponses
KeyFileLists ==
    SeqsUpTo({KeyFile(p, MaxImportance) : p \in Paths \ {""}}, MaxSeeds)

KeyFilesObjs == {NoObj} \cup {Obj({"files"}, "", l) : l \in KeyFileLists}

KeyFilesResponses ==
    {[threw |-> FALSE, result |-> l, llmOutput |-> NoOutput] : l \in KeyFileLists}
    \cup {[threw |-> TRUE, result |-> <<>>, llmOutput |-> raw]
          : raw \in RawOutputs(KeyFilesObjs)}

identifyKeyFiles(resp) ==
    IF ~resp.threw THEN resp.result
    ELSE LET parsedOutput == parseLLMOutput(resp.llmOutput)
         IN  IF ~parsedOutput.isNull /\ "files" \in parsedOutput.obj.fields
             THEN parsedOutput.obj.files
             ELSE <<>>

(***************************************************************************)
(* reviewCode (part_003:191-246).                                          *)
(***************************************************************************)
LlmQuality == "Readable"
LlmIssues == <<"issue">>
LlmStrengths == <<"strength">>
LlmRecommendations == <<"recommendation">>

\* a conforming review; the path is the string the model wrote
LlmReview(path) ==
    [path |-> path, codeQuality |-> LlmQuality, issues |-> LlmIssues,
     strengths |-> LlmStrengths, recommendations |-> LlmRecommendations]

\* part_003:238-244
DefaultReview(path) ==
    [path |-> path, codeQuality |-> "Unable to analyze due to an error",
     issues |-> <<>>, strengths |-> <<>>, recommendations |-> <<>>]

\* recovered objects: empty, or with a path field only
ReviewObjs == {NoObj} \cup {Obj({"path"}, p, <<>>) : p \in Paths}

ReviewResponses ==
    {[threw |-> FALSE, result |-> LlmReview(p), llmOutput |-> NoOutput]
     : p \in Paths \ {""}}
    \cup {[threw |-> TRUE, result |-> DefaultReview(""), llmOutput |-> raw]
          : raw \in RawOutputs(ReviewObjs)}

\* part_003:229-235: a || b takes b when a is undefined or the empty string
RecoveredPath(obj, requested) ==
    IF "path" \in obj.fields /\ obj.path # "" THEN obj.path ELSE requested

RecoveredReview(obj, requested) ==
    [path |-> RecoveredPath(obj, requested),
     codeQuality |-> IF "codeQuality" \in obj.fields THEN LlmQuality
                     ELSE "Unable to fully analyze",
     issues |-> IF "issues" \in obj.fields THEN LlmIssues ELSE <<>>,
     strengths |-> IF "strengths" \in obj.fields THEN LlmStrengths ELSE <<>>,
     recommendations |-> IF "recommendations" \in obj.fields
                         THEN LlmRecommendations ELSE <<>>]

reviewCode(requested, resp) ==
    IF ~resp.threw THEN resp.result
    ELSE LET parsedOutput == parseLLMOutput(resp.llmOutput)
         IN  IF ~parsedOutput.isNull
             THEN RecoveredReview(parsedOutput.obj, requested)
             ELSE DefaultReview(requested)

(***************************************************************************)
(* suggestRelatedFiles (part_003:248-300).                                 *)
(***************************************************************************)
PathLists == SeqsUpTo(Paths, MaxSuggest)

RelatedObjs == {NoObj} \cup {Obj({"files"}, "", l) : l \in PathLists}

RelatedResponses ==
    {[threw |-> FALSE, result |-> l, llmOutput |-> NoOutput] : l \in PathLists}
    \cup {[threw |-> TRUE, result |-> <<>>, llmOutput |-> raw]
          : raw \in RawOutputs(RelatedObjs)}

suggestRelatedFiles(resp) ==
    IF ~resp.threw THEN resp.result
    ELSE LET parsedOutput == parseLLMOutput(resp.llmOutput)
         IN  IF ~parsedOutput.isNull /\ "files" \in parsedOutput.obj.fields
             THEN parsedOutput.obj.files
             ELSE <<>>

\* how a call ended, as the run log shows it: "ok" when the call resolved,
\* "partial" when the thrown error's text was recovered, "fallback" otherwise
Ending(resp, needsFiles) ==
    IF ~resp.threw THEN "ok"
    ELSE LET parsedOutput == parseLLMOutput(resp.llmOutput)
         IN  IF ~parsedOutput.isNull
                /\ (needsFiles => "files" \in parsedOutput.obj.fields)
             THEN "partial" ELSE "fallback"

(***************************************************************************)
(* generateFinalReport of the oracle client (part_003:302-443).            *)
(***************************************************************************)
NoReport ==
    [isNull |-> TRUE, projectType |-> "", projectPurpose |-> "",
     mainFunctionalities |-> <<>>, issues |-> <<>>, strengths |-> <<>>,
     recommendations |-> <<>>, dependencies |-> <<>>]

LlmPurpose == "purpose"
LlmFunctionalities == <<"functionality">>
LlmRecommendation == "Refactor"
\* part_003:381-388, 407-414, 433-440
PlaceholderRecommendation == "Review code for security vulnerabilities"
\* part_003:371, 397, 423
PlaceholderFunctionality == "Unable to identify main functionalities due to an error"

SummaryObjs == {Obj(f, "", <<>>) : f \in {{}, {"projectPurpose"}, SummaryFields}}

SummaryResponses ==
    {[threw |-> FALSE, result |-> Obj(SummaryFields, "", <<>>), llmOutput |-> NoOutput]}
    \cup {[threw |-> TRUE, result |-> NoObj, llmOutput |-> raw]
          : raw \in RawOutputs(SummaryObjs)}

\* part_003:354  technologies tagged library or framework
RECURSIVE Dependencies(_)
Dependencies(technologies) ==
    IF technologies = <<>> THEN <<>>
    ELSE LET rest == Dependencies(Tail(technologies))
         IN  IF Head(technologies) \in {"library", "framework"}
             THEN <<Head(technologies)>> \o rest ELSE rest

\* the report built from a summary object; an absent field takes its
\* literal fallback (part_003:367-389; 342-357 when every field is present)
ReportFrom(info, obj) ==
    [isNull |-> FALSE,
     projectType |-> info.type,
     projectPurpose |-> IF "projectPurpose" \in obj.fields THEN LlmPurpose
                        ELSE info.description,
     mainFunctionalities |-> IF "mainFunctionalities" \in obj.fields
                             THEN LlmFunctionalities
                             ELSE <<PlaceholderFunctionality>>,
     issues |-> IF "issues" \in obj.fields THEN LlmIssues ELSE <<>>,
     strengths |-> IF "strengths" \in obj.fields THEN LlmStrengths ELSE <<>>,
     recommendations |-> IF "recommendations" \in obj.fields
                         THEN <<LlmRecommendation>>
                         ELSE <<PlaceholderRecommendation>>,
     dependencies |-> Dependencies(info.technologies)]

Thrown == [threw |-> TRUE, invoked |-> FALSE, report |-> NoReport]

\* The structure argument is dereferenced before the try block (line 309),
\* and projectInfo.technologies.filter is evaluated on every path, the last
\* catch block included (lines 354, 379, 405, 431): an undefined structure
\* or an info object without technologies makes the function throw.
generateFinalReport(info, structure, resp) ==
    IF structure.isNull THEN Thrown
    ELSE IF "technologies" \notin info.fields
         THEN [Thrown EXCEPT !.invoked = TRUE]
    ELSE IF ~resp.threw
         THEN [threw |-> FALSE, invoked |-> TRUE,
               report |-> ReportFrom(info, resp.result)]
    ELSE LET parsedOutput == parseLLMOutput(resp.llmOutput)
         IN  [threw |-> FALSE, invoked |-> TRUE,
              report |-> ReportFrom(info,
                                    IF parsedOutput.isNull THEN NoObj
                                    ELSE parsedOutput.obj)]

(***************************************************************************)
(* File utilities (part_005).                                              *)
(***************************************************************************)
NullStructure == [isNull |-> TRUE, files |-> {}]

NoProvider == [kind |-> "none", files |-> {}]

\* code2prompt: the command fails, prints something that is not JSON,
\* prints JSON without a files array, or prints a files array
ProviderOutputs ==
    {[kind |-> k, files |-> {}] : k \in {"execError", "badJson", "noFilesArray"}}
    \cup {[kind |-> "files", files |-> S] : S \in SUBSET TreeCandidates}

\* a provider that is also fatal on an empty files array
getProjectStructureFatalOnEmpty(out) ==
    IF out.kind # "files" \/ out.files = {}
    THEN [threw |-> TRUE, value |-> NullStructure]
    ELSE [threw |-> FALSE, value |-> [isNull |-> FALSE, files |-> out.files]]

\* part_005:105-216: throws unless the output has a files array; an empty
\* array only logs a warning (line 207) and yields a root without children
getProjectStructure(out) ==
    IF out.kind # "files"
    THEN [threw |-> TRUE, value |-> NullStructure]
    ELSE [threw |-> FALSE, value |-> [isNull |-> FALSE, files |-> out.files]]

NullSize == [isNull |-> TRUE, total |-> 0, category |-> "SMALL"]

ClocOutputs ==
    {[kind |-> k, total |-> 0] : k \in {"notInstalled", "failed"}}
    \cup {[kind |-> "json", total |-> t] : t \in ClocTotals}

\* part_005:244-249
Category(total) ==
    IF total > LargeAbove THEN "LARGE"
    ELSE IF total > MediumAbove THEN "MEDIUM"
    ELSE "SMALL"

\* part_005:219-256
getProjectSize(cloc) ==
    IF cloc.kind # "json"
    THEN [isNull |-> FALSE, total |-> 0, category |-> "SMALL"]
    ELSE [isNull |-> FALSE, total |-> cloc.total, category |-> Category(cloc.total)]

NoStat == [exists |-> FALSE, isDirectory |-> FALSE, size |-> 0]

\* what fs answers about a path: nothing there, a directory, or a file
DiskStates ==
    {NoStat, [exists |-> TRUE, isDirectory |-> TRUE, size |-> 0]}
    \cup {[exists |-> TRUE, isDirectory |-> FALSE, size |-> z] : z \in FileSizes}

\* part_005:87-103
fileExists(st) == st.exists
isDirectory(st) == IF fileExists(st) THEN st.isDirectory ELSE FALSE
getFileSize(st) == IF fileExists(st) /\ ~isDirectory(st) THEN st.size ELSE 0

(***************************************************************************)
(* ProjectReviewAgent (src/src/agent.ts).                                  *)
(***************************************************************************)
StructureError == "Failed to generate project structure using code2prompt."
StructureMissingError == "Project structure not available."
InfoMissingError == "Project structure or info not available."
KeyFilesError == "Key files or project info not available."
ReportDataError == "Required data not available."
ReportTypeError == "TypeError in generateFinalReport"

Call(op, path) == [op |-> op, path |-> path]

\* the key files left in the order the oracle returned them
SortSkipped(files) == files

\* an insertion that puts an element ahead of those of its own importance
RECURSIVE InsertBeforeTies(_, _)
InsertBeforeTies(sorted, file) ==
    IF sorted = <<>> THEN <<file>>
    ELSE IF Head(sorted).importance > file.importance
         THEN <<Head(sorted)>> \o InsertBeforeTies(Tail(sorted), file)
         ELSE <<file>> \o sorted

\* agent.ts:149  Array.prototype.sort is stable: an element goes behind
\* every element whose importance is at least its own
RECURSIVE InsertByImportance(_, _)
InsertByImportance(sorted, file) ==
    IF sorted = <<>> THEN <<file>>
    ELSE IF Head(sorted).importance >= file.importance
         THEN <<Head(sorted)>> \o InsertByImportance(Tail(sorted), file)
         ELSE <<file>> \o sorted

RECURSIVE SortByImportance(_)
SortByImportance(files) ==
    IF files = <<>> THEN <<>>
    ELSE InsertByImportance(SortByImportance(SubSeq(files, 1, Len(files) - 1)),
                            files[Len(files)])

\* agent.ts:170
PathsOf(files) == [i \in DOMAIN files |-> files[i].path]

\* the loop condition without the budget test
CanContinueNoBudget(queue, visited, budget) == Len(queue) > 0

\* the loop condition with the budget test off by one
CanContinueOffByOne(queue, visited, budget) ==
    Len(queue) > 0 /\ Cardinality(visited) <= budget

\* agent.ts:172  the condition of the while loop
CanContinue(queue, visited, budget) ==
    Len(queue) > 0 /\ Cardinality(visited) < budget

\* reading the head without removing it
ShiftPeek(queue) == queue

\* agent.ts:173  what shift() leaves in the queue
Shift(queue) == Tail(queue)

\* the check without the look-up in reviewedFiles
IsDiscardedFalsyOnly(path, visited) == path = ""

\* agent.ts:175  !filePath || reviewedFiles.has(filePath)
IsDiscarded(path, visited) == path = "" \/ path \in visited

\* an admission that does not record the path
AdmitNothing(visited, path) == visited

\* an admission that forgets the paths admitted before
AdmitForgetting(visited, path) == {path}

\* agent.ts:179
Admit(visited, path) == visited \cup {path}

\* the size check with >= for >
SkipReasonAtLimit(st) ==
    IF ~fileExists(st) THEN "missing"
    ELSE IF isDirectory(st) THEN "directory"
    ELSE IF getFileSize(st) >= SizeLimit THEN "tooLarge"
    ELSE ""

\* agent.ts:187-202  the reason the cycle is skipped, "" when it is not
SkipReason(st) ==
    IF ~fileExists(st) THEN "missing"
    ELSE IF isDirectory(st) THEN "directory"
    ELSE IF getFileSize(st) > SizeLimit THEN "tooLarge"
    ELSE ""

\* putting the entry at the head of the ledger instead of its tail
Unshift(results, reviewResult) == <<reviewResult>> \o results

\* agent.ts:215  this.reviewResults.push(reviewResult)
Push(results, reviewResult) == Append(results, reviewResult)

\* pushing the related files at the head of the queue instead of its tail
RECURSIVE AddRelatedAtHead(_, _, _)
AddRelatedAtHead(queue, visited, relatedFiles) ==
    IF relatedFiles = <<>> THEN queue
    ELSE LET relatedFile == Head(relatedFiles)
         IN  AddRelatedAtHead(IF relatedFile \notin visited
                                 /\ relatedFile \notin Range(queue)
                              THEN <<relatedFile>> \o queue ELSE queue,
                              visited, Tail(relatedFiles))

\* the insertion without the look-up in the queue
RECURSIVE AddRelatedNoQueueCheck(_, _, _)
AddRelatedNoQueueCheck(queue, visited, relatedFiles) ==
    IF relatedFiles = <<>> THEN queue
    ELSE LET relatedFile == Head(relatedFiles)
         IN  AddRelatedNoQueueCheck(IF relatedFile \notin visited
                                    THEN Append(queue, relatedFile) ELSE queue,
                                    visited, Tail(relatedFiles))

\* agent.ts:229-233
RECURSIVE AddRelated(_, _, _)
AddRelated(queue, visited, relatedFiles) ==
    IF relatedFiles = <<>> THEN queue
    ELSE LET relatedFile == Head(relatedFiles)
         IN  AddRelated(IF relatedFile \notin visited /\ relatedFile \notin Range(queue)
                        THEN Append(queue, relatedFile) ELSE queue,
                        visited, Tail(relatedFiles))

Init ==
    /\ pc = "getProjectStructure"
    /\ maxFilesToReview \in 1..MaxBudget
    /\ provider = NoProvider
    /\ projectStructure = NullStructure
    /\ projectInfo = NullInfo
    /\ keyFiles = <<>>
    /\ reviewResults = <<>>
    /\ projectSize = NullSize
    /\ reviewedFiles = {}
    /\ filesToReview = <<>>
    /\ filePath = ""
    /\ oracleCalls = <<>>
    /\ llm = "none"
    /\ stat = NoStat
    /\ skipped = {}
    /\ entered = <<>>
    /\ finalReport = NoReport
    /\ runError = ""

\* run() rejects with error
Abort(error) ==
    /\ pc' = "aborted"
    /\ runError' = error

\* agent.ts:79-86
GetProjectStructure ==
    /\ pc = "getProjectStructure"
    /\ \E out \in ProviderOutputs :
         LET r == getProjectStructure(out)
         IN  /\ provider' = out
             /\ IF r.threw
                THEN Abort(StructureError) /\ UNCHANGED projectStructure
                ELSE /\ projectStructure' = r.value
                     /\ pc' = "identifyProjectType"
                     /\ UNCHANGED runError
    /\ UNCHANGED <<maxFilesToReview, projectInfo, keyFiles, reviewResults,
                   projectSize, reviewedFiles, filesToReview, filePath,
                   oracleCalls, llm, stat, skipped, finalReport,
                   entered>>

\* agent.ts:91-134
IdentifyProjectType ==
    /\ pc = "identifyProjectType"
    /\ IF projectStructure.isNull
       THEN Abort(StructureMissingError) /\ UNCHANGED <<projectInfo, oracleCalls, llm>>
       ELSE \E resp \in InfoResponses :
              /\ projectInfo' = identifyProjectType(resp)
              /\ oracleCalls' = Append(oracleCalls, Call("classify", ""))
              /\ llm' = Ending(resp, FALSE)
              /\ pc' = "identifyKeyFiles"
              /\ UNCHANGED runError
    /\ UNCHANGED <<maxFilesToReview, provider, projectStructure, keyFiles,
                   reviewResults, projectSize, reviewedFiles, filesToReview,
                   filePath, stat, skipped, finalReport,
                   entered>>

\* agent.ts:139-154, the ranking oracle answering with one of responses
IdentifyKeyFilesOn(responses) ==
    /\ pc = "identifyKeyFiles"
    /\ IF projectStructure.isNull \/ projectInfo.isNull
       THEN Abort(InfoMissingError) /\ UNCHANGED <<keyFiles, oracleCalls, llm>>
       ELSE \E resp \in responses :
              /\ keyFiles' = SortByImportance(identifyKeyFiles(resp))
              /\ oracleCalls' = Append(oracleCalls, Call("rank", ""))
              /\ llm' = Ending(resp, TRUE)
              /\ pc' = "reviewFiles"
              /\ UNCHANGED runError
    /\ UNCHANGED <<maxFilesToReview, provider, projectStructure, projectInfo,
                   reviewResults, projectSize, reviewedFiles, filesToReview,
                   filePath, stat, skipped, finalReport,
                   entered>>

IdentifyKeyFiles == IdentifyKeyFilesOn(KeyFilesResponses)

\* agent.ts:159-170  entry of reviewFiles
ReviewFiles ==
    /\ pc = "reviewFiles"
    /\ IF Len(keyFiles) = 0 \/ projectInfo.isNull
       THEN Abort(KeyFilesError)
            /\ UNCHANGED <<reviewedFiles, reviewResults, filesToReview, llm,
                           entered>>
       ELSE /\ reviewedFiles' = {}
            /\ llm' = "none"
            /\ reviewResults' = <<>>
            /\ filesToReview' = PathsOf(keyFiles)
            /\ entered' = PathsOf(keyFiles)
            /\ pc' = "loop"
            /\ UNCHANGED runError
    /\ UNCHANGED <<maxFilesToReview, provider, projectStructure, projectInfo,
                   keyFiles, projectSize, filePath, oracleCalls, stat, skipped,
                   finalReport>>

\* agent.ts:172-177  an iteration that drops the head of the queue
LoopDiscard ==
    /\ pc = "loop"
    /\ CanContinue(filesToReview, reviewedFiles, maxFilesToReview)
    /\ IsDiscarded(Head(filesToReview), reviewedFiles)
    /\ filePath' = Head(filesToReview)
    /\ filesToReview' = Shift(filesToReview)
    /\ stat' = NoStat
    /\ llm' = "none"
    /\ UNCHANGED <<pc, maxFilesToReview, provider, projectStructure, projectInfo,
                   keyFiles, reviewResults, projectSize, reviewedFiles,
                   oracleCalls, skipped, finalReport, runError,
                   entered>>

\* agent.ts:172-202  an iteration that admits the head of the queue and
\* looks the file up on disk, which answers with one of disk
LoopAdmitOn(disk) ==
    /\ pc = "loop"
    /\ CanContinue(filesToReview, reviewedFiles, maxFilesToReview)
    /\ ~IsDiscarded(Head(filesToReview), reviewedFiles)
    /\ filePath' = Head(filesToReview)
    /\ filesToReview' = Shift(filesToReview)
    /\ reviewedFiles' = Admit(reviewedFiles, Head(filesToReview))
    /\ llm' = "none"
    /\ \E st \in disk :
         /\ stat' = st
         /\ IF SkipReason(st) # ""
            THEN /\ skipped' = skipped \cup {Head(filesToReview)}
                 /\ pc' = "loop"
            ELSE /\ pc' = "generateFilePrompt"
                 /\ UNCHANGED skipped
    /\ UNCHANGED <<maxFilesToReview, provider, projectStructure, projectInfo,
                   keyFiles, reviewResults, projectSize, oracleCalls,
                   finalReport, runError,
                   entered>>

LoopAdmit == LoopAdmitOn(DiskStates)

\* a materialization whose failure takes the path out of the VisitedSet
GenerateFilePromptRefunding ==
    /\ pc = "generateFilePrompt"
    /\ \E threw \in BOOLEAN :
         IF threw
         THEN /\ skipped' = skipped \cup {filePath}
              /\ reviewedFiles' = reviewedFiles \ {filePath}
              /\ pc' = "loop"
         ELSE /\ pc' = "reviewCode"
              /\ UNCHANGED <<skipped, reviewedFiles>>
    /\ UNCHANGED <<maxFilesToReview, provider, projectStructure, projectInfo,
                   keyFiles, reviewResults, projectSize,
                   filesToReview, filePath, oracleCalls, llm, stat, finalReport,
                   runError,
                   entered>>

\* a materialization after which the suggestion is asked for at once,
\* without the review
GenerateFilePromptThenSuggest ==
    /\ pc = "generateFilePrompt"
    /\ \E threw \in BOOLEAN :
         IF threw
         THEN /\ skipped' = skipped \cup {filePath}
              /\ pc' = "loop"
         ELSE /\ pc' = "suggestRelatedFiles"
              /\ UNCHANGED skipped
    /\ UNCHANGED <<maxFilesToReview, provider, projectStructure, projectInfo,
                   keyFiles, reviewResults, projectSize, reviewedFiles,
                   filesToReview, filePath, oracleCalls, llm, stat, finalReport,
                   runError,
                   entered>>

\* agent.ts:204-211  generateFilePrompt (part_004:97-125) returns or throws
GenerateFilePrompt ==
    /\ pc = "generateFilePrompt"
    /\ \E threw \in BOOLEAN :
         IF threw
         THEN /\ skipped' = skipped \cup {filePath}
              /\ pc' = "loop"
         ELSE /\ pc' = "reviewCode"
              /\ UNCHANGED skipped
    /\ UNCHANGED <<maxFilesToReview, provider, projectStructure, projectInfo,
                   keyFiles, reviewResults, projectSize, reviewedFiles,
                   filesToReview, filePath, oracleCalls, llm, stat, finalReport,
                   runError,
                   entered>>

\* agent.ts:213-218, the review oracle answering with one of responses
ReviewCodeOn(responses) ==
    /\ pc = "reviewCode"
    /\ \E resp \in responses :
         LET reviewResult == reviewCode(filePath, resp)
         IN  /\ reviewResults' = Push(reviewResults, reviewResult)
             /\ oracleCalls' = Append(oracleCalls, Call("review", filePath))
             /\ llm' = Ending(resp, FALSE)
    /\ pc' = "suggestRelatedFiles"
    /\ UNCHANGED <<maxFilesToReview, provider, projectStructure, projectInfo,
                   keyFiles, projectSize, reviewedFiles, filesToReview, filePath,
                   stat, skipped, finalReport, runError,
                   entered>>

ReviewCode == ReviewCodeOn(ReviewResponses)

\* agent.ts:220-233, the suggestion oracle answering with one of responses
SuggestRelatedFilesOn(responses) ==
    /\ pc = "suggestRelatedFiles"
    /\ \E resp \in responses :
         LET relatedFiles == suggestRelatedFiles(resp)
             queue == AddRelated(filesToReview, reviewedFiles, relatedFiles)
         IN  /\ filesToReview' = queue
             /\ entered' = entered \o SubSeq(queue, Len(filesToReview) + 1, Len(queue))
             /\ oracleCalls' = Append(oracleCalls, Call("suggest", filePath))
             /\ llm' = Ending(resp, TRUE)
    /\ pc' = "loop"
    /\ UNCHANGED <<maxFilesToReview, provider, projectStructure, projectInfo,
                   keyFiles, reviewResults, projectSize, reviewedFiles, filePath,
                   stat, skipped, finalReport, runError>>

SuggestRelatedFiles == SuggestRelatedFilesOn(RelatedResponses)

\* agent.ts:172, 239-240  the loop condition is false and reviewFiles
\* returns: its locals reviewedFiles and filesToReview (agent.ts:166, 170)
\* and those of the loop body are gone, and what was observed of them ends
LoopExit ==
    /\ pc = "loop"
    /\ ~CanContinue(filesToReview, reviewedFiles, maxFilesToReview)
    /\ pc' = "getProjectSize"
    /\ reviewedFiles' = {}
    /\ filesToReview' = <<>>
    /\ filePath' = ""
    /\ stat' = NoStat
    /\ llm' = "none"
    /\ skipped' = {}
    /\ entered' = <<>>
    /\ UNCHANGED <<maxFilesToReview, provider, projectStructure, projectInfo,
                   keyFiles, reviewResults, projectSize, oracleCalls,
                   finalReport, runError>>

\* agent.ts:245-252, cloc answering with one of outputs
GetProjectSizeOn(outputs) ==
    /\ pc = "getProjectSize"
    /\ \E cloc \in outputs : projectSize' = getProjectSize(cloc)
    /\ pc' = "generateFinalReport"
    /\ UNCHANGED <<maxFilesToReview, provider, projectStructure, projectInfo,
                   keyFiles, reviewResults, reviewedFiles, filesToReview,
                   filePath, oracleCalls, llm, stat, skipped, finalReport, runError,
                   entered>>

GetProjectSize == GetProjectSizeOn(ClocOutputs)

\* agent.ts:266-270 passes three arguments to a function of four: the
\* projectStructure parameter of generateFinalReport is undefined
StructureArgument == NullStructure

\* agent.ts:257-276
GenerateFinalReport ==
    /\ pc = "generateFinalReport"
    /\ IF projectInfo.isNull \/ Len(reviewResults) = 0 \/ projectSize.isNull
       THEN Abort(ReportDataError) /\ UNCHANGED <<oracleCalls, llm, finalReport>>
       ELSE \E resp \in SummaryResponses :
              LET r == generateFinalReport(projectInfo, StructureArgument, resp)
              IN  /\ oracleCalls' = IF r.invoked
                                    THEN Append(oracleCalls, Call("summarize", ""))
                                    ELSE oracleCalls
                  /\ llm' = IF r.invoked THEN Ending(resp, FALSE) ELSE llm
                  /\ IF r.threw
                     THEN Abort(ReportTypeError) /\ UNCHANGED finalReport
                     ELSE /\ finalReport' = r.report
                          /\ pc' = "done"
                          /\ UNCHANGED runError
    /\ UNCHANGED <<maxFilesToReview, provider, projectStructure, projectInfo,
                   keyFiles, reviewResults, projectSize, reviewedFiles,
                   filesToReview, filePath, stat, skipped,
                   entered>>

Next ==
    \/ GetProjectStructure
    \/ IdentifyProjectType
    \/ IdentifyKeyFiles
    \/ ReviewFiles
    \/ LoopDiscard
    \/ LoopAdmit
    \/ GenerateFilePrompt
    \/ ReviewCode
    \/ SuggestRelatedFiles
    \/ LoopExit
    \/ GetProjectSize
    \/ GenerateFinalReport

Spec == Init /\ [][Next]_vars

\* run() is one chain of awaits: whatever step is enabled is eventually taken
LiveSpec == Spec /\ WF_vars(Next)

(***************************************************************************)
(* The review phase over a project of three files.  The run starts after   *)
(* the classification; the ranking oracle answers with any list of the     *)
(* three paths and the empty path, every suggestion call resolves with any *)
(* list of the three paths, the                                            *)
(* disk either misses a path or holds a file within the size limit, and a  *)
(* review call resolves with a review or fails without output.             *)
(***************************************************************************)
ScenarioPaths == {"a.py", "b.py", "c.py"}

ScenarioLen == Cardinality(ScenarioPaths)

ScenarioKeyFilesResponses ==
    {[threw |-> FALSE, result |-> l, llmOutput |-> NoOutput]
     : l \in SeqsUpTo({KeyFile(p, i) : p \in ScenarioPaths \cup {""}, i \in Importances},
                      ScenarioLen)}

ScenarioDiskStates == {st \in DiskStates : SkipReason(st) \in {"missing", ""}
                                           /\ st.size <= SizeLimit}

ScenarioReviewResponses ==
    {[threw |-> FALSE, result |-> LlmReview(p), llmOutput |-> NoOutput]
     : p \in ScenarioPaths}
    \cup {[threw |-> TRUE, result |-> DefaultReview(""), llmOutput |-> NoOutput]}

ScenarioRelatedResponses ==
    {[threw |-> FALSE, result |-> l, llmOutput |-> NoOutput]
     : l \in SeqsUpTo(ScenarioPaths, ScenarioLen)}

\* the state after identifyProjectType resolved for a tree of three files
ScenarioInit ==
    /\ pc = "identifyKeyFiles"
    /\ maxFilesToReview \in 1..ScenarioLen
    /\ provider = [kind |-> "files", files |-> ScenarioPaths]
    /\ projectStructure = [isNull |-> FALSE, files |-> ScenarioPaths]
    /\ projectInfo = LlmInfo
    /\ keyFiles = <<>>
    /\ reviewResults = <<>>
    /\ projectSize = NullSize
    /\ reviewedFiles = {}
    /\ filesToReview = <<>>
    /\ filePath = ""
    /\ oracleCalls = <<Call("classify", "")>>
    /\ llm = "ok"
    /\ stat = NoStat
    /\ skipped = {}
    /\ entered = <<>>
    /\ finalReport = NoReport
    /\ runError = ""

ScenarioIdentifyKeyFiles == IdentifyKeyFilesOn(ScenarioKeyFilesResponses)
ScenarioLoopAdmit == LoopAdmitOn(ScenarioDiskStates)
ScenarioReviewCode == ReviewCodeOn(ScenarioReviewResponses)
ScenarioSuggestRelatedFiles == SuggestRelatedFilesOn(ScenarioRelatedResponses)

ScenarioNext ==
    \/ ScenarioIdentifyKeyFiles
    \/ ReviewFiles
    \/ LoopDiscard
    \/ ScenarioLoopAdmit
    \/ GenerateFilePrompt
    \/ ScenarioReviewCode
    \/ ScenarioSuggestRelatedFiles
    \/ LoopExit

\* the run up to the end of reviewFiles
ScenarioSpec == ScenarioInit /\ [][ScenarioNext]_vars

(***************************************************************************)
(* getProjectSize alone, on the line counts around the two thresholds.     *)
(***************************************************************************)
BoundaryTotals ==
    UNION {(t - SizeMargin)..(t + SizeMargin) : t \in {MediumAbove, LargeAbove}}

BoundaryClocOutputs == {[kind |-> "json", total |-> t] : t \in BoundaryTotals}

\* the state in which run() calls getProjectSize after a review phase that
\* reviewed one seed
SizeInit ==
    /\ pc = "getProjectSize"
    /\ maxFilesToReview = 1
    /\ provider = [kind |-> "files", files |-> TreeCandidates]
    /\ projectStructure = [isNull |-> FALSE, files |-> TreeCandidates]
    /\ projectInfo = LlmInfo
    /\ keyFiles = <<KeyFile("a.py", MaxImportance)>>
    /\ reviewResults = <<LlmReview("a.py")>>
    /\ projectSize = NullSize
    /\ reviewedFiles = {}
    /\ filesToReview = <<>>
    /\ filePath = ""
    /\ oracleCalls = <<Call("classify", ""), Call("rank", ""),
                       Call("review", "a.py"), Call("suggest", "a.py")>>
    /\ llm = "none"
    /\ stat = NoStat
    /\ skipped = {}
    /\ entered = <<>>
    /\ finalReport = NoReport
    /\ runError = ""

SizeGetProjectSize == GetProjectSizeOn(BoundaryClocOutputs)

SizeNext == SizeGetProjectSize

SizeSpec == SizeInit /\ [][SizeNext]_vars

(***************************************************************************)
(* The tree built by getProjectStructure (part_005:141-203), alone, on     *)
(* short lists of absolute paths under the root.  A path is held as the    *)
(* sequence of its segments below the root; a segment "." is a spelling    *)
(* that path.relative removes.  The tree is held as its nodes in the order *)
(* of their creation, each with the key of the dirMap entry whose children *)
(* it was pushed to, and dirMap as the set of its keys.                    *)
(***************************************************************************)
MaxTreeFiles == 3

\* absolute paths the provider may list: the root itself, a.py in two
\* spellings, and files one and two directories down
AbsolutePaths ==
    {<<>>, <<"a.py">>, <<".", "a.py">>, <<"src", "a.py">>, <<"src", "lib", "b.py">>}

TreeProviderOutputs ==
    {[kind |-> "files", files |-> l] : l \in SeqsUpTo(AbsolutePaths, MaxTreeFiles)}

\* part_005:159  path.relative(rootDir, absolutePath)
Relative(absolutePath) == SelectSeq(absolutePath, LAMBDA segment : segment # ".")

\* part_005:142-151  the root and the dirMap that holds it under ''
EmptyTree == [nodes |-> <<>>, dirs |-> {<<>>}]

FileNode(path, type, parentPath) == [path |-> path, type |-> type, parent |-> parentPath]

\* part_005:168-188  the directories of segments from position i on
RECURSIVE AddDirectories(_, _, _)
AddDirectories(tree, segments, i) ==
    IF i > Len(segments) - 1 THEN tree
    ELSE LET parentPath == SubSeq(segments, 1, i - 1)
             currentPath == SubSeq(segments, 1, i)
             next == IF currentPath \in tree.dirs THEN tree
                     ELSE [nodes |-> IF parentPath \in tree.dirs
                                     THEN Append(tree.nodes,
                                                 FileNode(currentPath, "directory",
                                                          parentPath))
                                     ELSE tree.nodes,
                           dirs |-> tree.dirs \cup {currentPath}]
         IN  AddDirectories(next, segments, i + 1)

\* part_005:157-203  one iteration of the loop over code2promptOutput.files
AddFile(tree, absolutePath) ==
    LET relativePath == Relative(absolutePath)
    IN  IF relativePath = <<>> THEN tree
        ELSE LET withDirs == AddDirectories(tree, relativePath, 1)
                 parentPath == SubSeq(relativePath, 1, Len(relativePath) - 1)
             IN  IF parentPath \in withDirs.dirs
                 THEN [withDirs EXCEPT
                         !.nodes = Append(@, FileNode(relativePath, "file", parentPath))]
                 ELSE withDirs

\* part_005:141-211
RECURSIVE BuildTree(_)
BuildTree(files) ==
    IF files = <<>> THEN EmptyTree
    ELSE AddFile(BuildTree(SubSeq(files, 1, Len(files) - 1)), files[Len(files)])

\* the relative paths of the file nodes
TreeFiles(tree) ==
    {tree.nodes[i].path : i \in {j \in DOMAIN tree.nodes : tree.nodes[j].type = "file"}}

TreeInit ==
    /\ pc = "getProjectStructure"
    /\ maxFilesToReview = 1
    /\ provider \in TreeProviderOutputs
    /\ projectStructure = NullStructure
    /\ projectInfo = NullInfo
    /\ keyFiles = <<>>
    /\ reviewResults = <<>>
    /\ projectSize = NullSize
    /\ reviewedFiles = {}
    /\ filesToReview = <<>>
    /\ filePath = ""
    /\ oracleCalls = <<>>
    /\ llm = "none"
    /\ stat = NoStat
    /\ skipped = {}
    /\ entered = <<>>
    /\ finalReport = NoReport
    /\ runError = ""

\* agent.ts:79-86 on a files array: the structure is the tree
TreeGetProjectStructure ==
    /\ pc = "getProjectStructure"
    /\ LET tree == BuildTree(provider.files)
       IN  projectStructure' = [isNull |-> FALSE, files |-> TreeFiles(tree),
                                root |-> tree]
    /\ pc' = "identifyProjectType"
    /\ UNCHANGED <<maxFilesToReview, provider, projectInfo, keyFiles,
                   reviewResults, projectSize, reviewedFiles, filesToReview,
                   filePath, oracleCalls, llm, stat, skipped, entered,
                   finalReport, runError>>

TreeNext == TreeGetProjectStructure

TreeSpec == TreeInit /\ [][TreeNext]_vars

(***************************************************************************)
(* Properties.                                                             *)
(***************************************************************************)
Last(seq) == seq[Len(seq)]

\* the review loop stops: its condition is false
LoopStopped ==
    pc = "loop" /\ ~CanContinue(filesToReview, reviewedFiles, maxFilesToReview)

\* the loop stops with the budget used up
BudgetStop == LoopStopped /\ Cardinality(reviewedFiles) = maxFilesToReview

\* C1: no two entries of the Run Ledger carry the same path.
C1_Dedup ==
    \A i, j \in DOMAIN reviewResults :
        i # j => reviewResults[i].path # reviewResults[j].path

\* C2 as stated: the ledger never has more than Budget entries, and has
\* exactly Budget entries whenever the loop stopped on the budget.
C2_BudgetEquality ==
    /\ Len(reviewResults) <= maxFilesToReview
    /\ BudgetStop => Len(reviewResults) = maxFilesToReview

\* C2 amended: the ledger never has more than Budget entries, and when the
\* loop stopped on the budget it has Budget entries less one for every
\* admitted path whose cycle was skipped.
C2_BudgetBound ==
    /\ Len(reviewResults) <= maxFilesToReview
    /\ BudgetStop => Len(reviewResults) = maxFilesToReview - Cardinality(skipped)

\* a budget stop after one review and one skipped cycle
C2_Witness ==
    /\ BudgetStop
    /\ maxFilesToReview = 2
    /\ Len(reviewResults) = 1
    /\ Cardinality(skipped) = 1

\* C3: the VisitedSet never has more than Budget paths, and a path is
\* admitted only in a state where it has fewer than Budget paths.
C3_VisitedWithinBudget ==
    /\ [](Cardinality(reviewedFiles) <= maxFilesToReview)
    /\ [][reviewedFiles' \ reviewedFiles # {}
          => Cardinality(reviewedFiles) < maxFilesToReview]_vars

\* the budget is used up by two admissions
C3_Witness ==
    /\ pc = "loop"
    /\ maxFilesToReview = 2
    /\ Cardinality(reviewedFiles) = maxFilesToReview

\* C4: a path that suggestRelated returns and the project tree does not
\* hold is not inserted into the Frontier.
C4_ExistenceFilter ==
    [][pc = "suggestRelatedFiles"
       => \A p \in Range(filesToReview') :
              p \in Range(filesToReview) \/ p \in projectStructure.files]_vars

\* C5: a failed oracle call never aborts the run: the run is not rejected
\* by the step that consumes the fallback of a failed call.
C5_DegradationNeverFailure ==
    pc = "aborted" /\ llm \in {"partial", "fallback"}
        => runError \notin {InfoMissingError, KeyFilesError, ReportDataError}

\* C6: a run whose structure provider succeeded is never aborted.
C6_OnlyStructureIsFatal ==
    pc = "aborted" => provider.kind # "files"

\* C7: with an empty seed list the review phase raises no error.
C7_ZeroIterationRun ==
    (Len(oracleCalls) >= 2 /\ keyFiles = <<>>) => pc # "aborted"

\* C8: the review loop stops and the run reaches a terminal state.
C8_Termination == <>(pc \in {"done", "aborted"})

\* a run that went twice round the loop and ended
C8_Witness ==
    /\ pc \in {"done", "aborted"}
    /\ Len(reviewResults) = 2
    /\ Len(oracleCalls) >= 6

C10_PathKeptUnderFailure ==
    (pc = "suggestRelatedFiles" /\ llm \in {"partial", "fallback"})
        => /\ Last(reviewResults).path = filePath
           /\ llm = "fallback"
                  => /\ Last(reviewResults).issues = <<>>
                     /\ Last(reviewResults).strengths = <<>>
                     /\ Last(reviewResults).recommendations = <<>>

Min(a, b) == IF a <= b THEN a ELSE b

\* a sequence without the later occurrences of its elements
RECURSIVE Dedupe(_)
Dedupe(seq) ==
    IF seq = <<>> THEN <<>>
    ELSE LET front == Dedupe(SubSeq(seq, 1, Len(seq) - 1))
         IN  IF Last(seq) \in Range(front) THEN front ELSE Append(front, Last(seq))

\* the paths reviewCode was called for, in call order
Requested ==
    LET calls == SelectSeq(oracleCalls, LAMBDA c : c.op = "review")
    IN  [i \in DOMAIN calls |-> calls[i].path]

\* the key files are in descending order of importance
SeedsSorted ==
    \A i, j \in DOMAIN keyFiles :
        i < j => keyFiles[i].importance >= keyFiles[j].importance

\* the distinct non-empty seed paths in their sorted order
SeedPaths == Dedupe(SelectSeq(PathsOf(keyFiles), LAMBDA p : p # ""))

\* a cycle boundary: no path is between its admission and the end of its cycle
BetweenCycles == pc = "loop"

\* C11 as stated: the seed list is sorted by importance descending and the
\* first min(Budget, |seed list|) entries of the Run Ledger carry the seed
\* paths in that order.
C11_SeedOrder ==
    LET k == Min(maxFilesToReview, Len(keyFiles))
    IN  /\ SeedsSorted
        /\ \A i \in 1..Min(k, Len(reviewResults)) :
               reviewResults[i].path = keyFiles[i].path
        /\ LoopStopped => Len(reviewResults) >= k

\* C11 amended: the seed list is sorted by importance descending; the first
\* min(Budget, number of distinct non-empty seed paths) admissions are the
\* distinct non-empty seed paths in that order; the reviews requested for those of them that
\* were not skipped are the first review calls, in the same order, and
\* ledger entry i is the outcome of review call i.
C11_SeedsFirst ==
    LET k == Min(maxFilesToReview, Len(SeedPaths))
        m == Min(k, Cardinality(reviewedFiles))
        admitted == {SeedPaths[i] : i \in 1..m}
        served == SelectSeq(SubSeq(SeedPaths, 1, k),
                            LAMBDA p : p \in Range(Requested))
    IN  /\ SeedsSorted
        /\ admitted \subseteq reviewedFiles
        /\ Cardinality(reviewedFiles) <= k => reviewedFiles = admitted
        /\ served = SubSeq(Requested, 1, Len(served))
        /\ Len(reviewResults) = Len(Requested)
        /\ LoopStopped
               => \A i \in 1..k :
                      /\ SeedPaths[i] \in reviewedFiles
                      /\ SeedPaths[i] \in skipped \cup Range(Requested)

\* two seeds of different importance: the first is reviewed and a third
\* path is suggested while the second seed waits; the second seed is then
\* skipped and the suggested path reviewed
C11_Witness ==
    /\ LoopStopped
    /\ Len(keyFiles) = 2
    /\ keyFiles[1].importance > keyFiles[2].importance
    /\ keyFiles[2].path \in skipped
    /\ Len(Requested) = 2
    /\ Requested[1] = keyFiles[1].path
    /\ Requested[2] \notin Range(PathsOf(keyFiles))

\* C12 as stated: between two cycles the Run Ledger holds exactly one
\* entry for each path of the VisitedSet.
C12_OneEntryPerVisited ==
    BetweenCycles
        => \A p \in reviewedFiles :
               Cardinality({i \in DOMAIN reviewResults : reviewResults[i].path = p}) = 1

\* C12 amended: between two cycles every visited path whose cycle was not
\* skipped has exactly one review call and every skipped one has none, and
\* the Run Ledger holds exactly one entry for each review call.
C12_OneReviewPerUnskipped ==
    BetweenCycles
        => /\ Len(reviewResults) = Len(Requested)
           /\ skipped \subseteq reviewedFiles
           /\ \A p \in reviewedFiles :
                  Cardinality({i \in DOMAIN Requested : Requested[i] = p})
                      = IF p \in skipped THEN 0 ELSE 1
           /\ Range(Requested) \subseteq reviewedFiles

\* the loop is between cycles with one path reviewed and another skipped
C12_Witness ==
    /\ pc = "loop"
    /\ Cardinality(reviewedFiles) = 2
    /\ Cardinality(skipped) = 1
    /\ Len(Requested) = 1

\* the review loop is running
InLoop == pc \in {"loop", "generateFilePrompt", "reviewCode", "suggestRelatedFiles"}

\* the position at which path p first entered the Frontier
FirstEntry(p) ==
    CHOOSE i \in DOMAIN entered :
        entered[i] = p /\ \A j \in 1..(i - 1) : entered[j] # p

\* C13: paths are reviewed in the order in which they entered the Frontier:
\* every reviewed path entered it, of two review calls the earlier one is
\* for the path that entered first, ledger entry i is the outcome of review
\* call i, and the Frontier is what is left of the entries, suggestions at
\* the tail; with a.py visited, the suggestion [b.py, a.py, c.py] turns an
\* empty Frontier into [b.py, c.py].
C13_FifoOrder ==
    /\ InLoop
           => /\ Range(Requested) \subseteq Range(entered)
              /\ \A i, j \in DOMAIN Requested :
                     i < j => FirstEntry(Requested[i]) < FirstEntry(Requested[j])
              /\ Len(reviewResults) = Len(Requested)
              /\ \E k \in 0..Len(entered) :
                     filesToReview = SubSeq(entered, k + 1, Len(entered))
    /\ AddRelated(<<>>, {"a.py"}, <<"b.py", "a.py", "c.py">>) = <<"b.py", "c.py">>

\* Scenario B: seed a.py, b.py and c.py entered by suggestion, ledger
\* [a.py, b.py, c.py]
C13_Witness ==
    /\ pc = "suggestRelatedFiles"
    /\ PathsOf(keyFiles) = <<"a.py">>
    /\ entered = <<"a.py", "b.py", "c.py">>
    /\ Requested = <<"a.py", "b.py", "c.py">>
    /\ PathsOf(reviewResults) = Requested

\* the seed list names n distinct paths and the budget is smaller than n
MoreSeedsThanBudget ==
    /\ keyFiles # <<>>
    /\ Len(SeedPaths) = Len(keyFiles)
    /\ Len(keyFiles) > maxFilesToReview

\* the seed paths behind the first Budget ones are the head of the Frontier
RestInFrontier ==
    SubSeq(filesToReview, 1, Len(keyFiles) - maxFilesToReview)
        = SubSeq(PathsOf(keyFiles), maxFilesToReview + 1, Len(keyFiles))

\* C14 as stated: with a seed list of n > Budget distinct paths the loop
\* stops with exactly Budget ledger entries and the remaining n - Budget
\* seed paths still in the Frontier.
C14_ScenarioC ==
    (LoopStopped /\ MoreSeedsThanBudget)
        => /\ Len(reviewResults) = maxFilesToReview
           /\ RestInFrontier

\* C14 amended: with a seed list of n > Budget distinct paths the loop
\* stops with Budget paths visited, the remaining n - Budget seed paths
\* still at the head of the Frontier, and one ledger entry for every
\* visited path whose cycle was not skipped.
C14_ForcedStop ==
    (LoopStopped /\ MoreSeedsThanBudget)
        => /\ Cardinality(reviewedFiles) = maxFilesToReview
           /\ Len(reviewResults) = maxFilesToReview - Cardinality(skipped)
           /\ RestInFrontier

\* Scenario C: budget 1, three seeds, one ledger entry, two paths left
C14_Witness ==
    /\ LoopStopped
    /\ maxFilesToReview = 1
    /\ Len(SeedPaths) = 3
    /\ Len(reviewResults) = 1
    /\ Len(filesToReview) = 2

\* C15: the category is SMALL for a total below 1000, MEDIUM for a total
\* from 1000 up to but not including 10000, and LARGE for a total above
\* 10000.
C15_Thresholds ==
    ~projectSize.isNull
        => LET t == projectSize.total
           IN  /\ t < MediumAbove => projectSize.category = "SMALL"
               /\ (MediumAbove <= t /\ t < LargeAbove)
                      => projectSize.category = "MEDIUM"
               /\ t > LargeAbove => projectSize.category = "LARGE"

\* C16: when the size counter is unavailable the size report is total 0,
\* category SMALL, and the run, which has a Run Ledger to report on, is not
\* aborted.
C16_ScenarioE ==
    (~projectSize.isNull /\ projectSize.total = 0)
        => /\ projectSize.category = "SMALL"
           /\ Len(reviewResults) > 0 => pc # "aborted"

\* C17: generateFinalReport never throws.
C17_AssemblerNeverFails == runError # ReportTypeError

\* C18: while the file of a cycle is materialized and reviewed its path is
\* in the VisitedSet and has not been reviewed before; every path reviewCode
\* was called for is in the VisitedSet, also after a call that failed; no
\* path has two review calls.
C18_AdmitThenReviewOnce ==
    /\ pc \in {"generateFilePrompt", "reviewCode"}
           => filePath \in reviewedFiles /\ filePath \notin Range(Requested)
    /\ InLoop => Range(Requested) \subseteq reviewedFiles
    /\ \A i, j \in DOMAIN Requested : i # j => Requested[i] # Requested[j]
    /\ (pc = "suggestRelatedFiles" /\ llm \in {"partial", "fallback"})
           => Last(Requested) = filePath /\ filePath \in reviewedFiles

\* the second review call of a run has failed
C18_Witness ==
    /\ pc = "suggestRelatedFiles"
    /\ llm = "fallback"
    /\ Len(Requested) = 2
    /\ filePath \in reviewedFiles

\* C19: a step that admits a path which is missing, a directory or larger
\* than 1,000,000 bytes ends the cycle at once: no oracle call, no error,
\* no ledger entry, and the loop is at its head again; a step that admits
\* any other file, one of exactly 1,000,000 bytes included, goes on to
\* materialize and review it.
C19_SkipPolicy ==
    [][(pc = "loop" /\ reviewedFiles' \ reviewedFiles # {})
       => IF ~stat'.exists \/ stat'.isDirectory \/ stat'.size > SizeLimit
          THEN /\ pc' = "loop"
               /\ oracleCalls' = oracleCalls
               /\ reviewResults' = reviewResults
               /\ runError' = ""
          ELSE pc' = "generateFilePrompt"]_vars

\* a file of 1,000,001 bytes was skipped after another file was reviewed
C19_Witness ==
    /\ pc = "loop"
    /\ stat.exists /\ ~stat.isDirectory /\ stat.size = SizeLimit + 1
    /\ filePath \in skipped
    /\ Len(Requested) = 1
    /\ Last(oracleCalls).op = "suggest"

\* C20: a cycle that skips its path leaves the VisitedSet one path larger
\* and the Run Ledger unchanged, and no step of the loop takes a path out
\* of the VisitedSet.
C20_BudgetConsumedBySkip ==
    /\ [][(pc = "loop" /\ skipped' \ skipped # {})
          => /\ Cardinality(reviewedFiles') = Cardinality(reviewedFiles) + 1
             /\ reviewResults' = reviewResults]_vars
    /\ [][InLoop' => reviewedFiles \subseteq reviewedFiles']_vars

\* the budget is used up by skipped paths alone
C20_Witness ==
    /\ pc = "loop"
    /\ maxFilesToReview = 2
    /\ Cardinality(reviewedFiles) = maxFilesToReview
    /\ skipped = reviewedFiles
    /\ reviewResults = <<>>

\* the returned paths that are neither visited nor in the queue, each once,
\* in returned order
NewRelated(queue, visited, relatedFiles) ==
    Dedupe(SelectSeq(relatedFiles,
                     LAMBDA p : p \notin visited /\ p \notin Range(queue)))

\* C21: when suggestRelated returns, the Frontier becomes the old Frontier
\* followed by exactly the returned paths that are neither in the VisitedSet
\* nor in the Frontier, each once, in returned order; a non-empty path never
\* enters the Frontier a second time by suggestion, and no path has two
\* review calls.
C21_InsertionDedup ==
    /\ [](pc = "suggestRelatedFiles"
           => \A resp \in ScenarioRelatedResponses :
                  LET relatedFiles == suggestRelatedFiles(resp)
                  IN  AddRelated(filesToReview, reviewedFiles, relatedFiles)
                          = filesToReview
                              \o NewRelated(filesToReview, reviewedFiles, relatedFiles))
    /\ [][pc = "suggestRelatedFiles"
              => \E resp \in ScenarioRelatedResponses :
                     filesToReview'
                         = filesToReview
                             \o NewRelated(filesToReview, reviewedFiles,
                                           suggestRelatedFiles(resp))]_vars
    /\ [](InLoop
           => /\ \A i \in (Len(keyFiles) + 1)..Len(entered) :
                     \A j \in 1..(i - 1) : entered[j] # entered[i]
              /\ \A i, j \in DOMAIN Requested : i # j => Requested[i] # Requested[j])

\* a.py and b.py are seeds, a.py is visited and reviewed, and the suggestion
\* call made for it has put c.py behind the waiting seed b.py
C21_Witness ==
    /\ pc = "loop"
    /\ PathsOf(keyFiles) = <<"a.py", "b.py">>
    /\ reviewedFiles = {"a.py"}
    /\ Last(oracleCalls) = Call("suggest", "a.py")
    /\ filesToReview = <<"b.py", "c.py">>
    /\ entered = <<"a.py", "b.py", "c.py">>

\* C22: an iteration that pops a path which is already in the VisitedSet
\* drops it: the VisitedSet, the Run Ledger and the calls made are as
\* before, the Frontier is the rest of the queue, and the loop is at its
\* head again.
C22_DefensiveRecheck ==
    [][(/\ pc = "loop"
        /\ CanContinue(filesToReview, reviewedFiles, maxFilesToReview)
        /\ Head(filesToReview) \in reviewedFiles)
       => /\ reviewedFiles' = reviewedFiles
          /\ reviewResults' = reviewResults
          /\ oracleCalls' = oracleCalls
          /\ skipped' = skipped
          /\ filesToReview' = Tail(filesToReview)
          /\ pc' = "loop"]_vars

\* the seed list named a.py twice: the first was reviewed, the second was
\* popped and dropped
C22_Witness ==
    /\ pc = "loop"
    /\ entered = <<"a.py", "a.py">>
    /\ filesToReview = <<>>
    /\ reviewedFiles = {"a.py"}
    /\ Requested = <<"a.py">>
    /\ Len(reviewResults) = 1
    /\ maxFilesToReview > 1

\* sorted holds the entries of returned in descending order of importance,
\* those of one importance in the order they have in returned
IsStableSortOf(sorted, returned) ==
    /\ Len(sorted) = Len(returned)
    /\ \A i, j \in DOMAIN sorted :
           i < j => sorted[i].importance >= sorted[j].importance
    /\ \A imp \in Importances :
           SelectSeq(sorted, LAMBDA f : f.importance = imp)
               = SelectSeq(returned, LAMBDA f : f.importance = imp)

\* C23: whatever list the ranking oracle returns, the ranking step leaves
\* it sorted by importance descending with ties in returned order; the step that
\* enters the review loop starts it with an empty VisitedSet, an empty Run
\* Ledger and the paths of the key files, in that order, as the Frontier.
C23_Initialization ==
    /\ [](pc = "identifyKeyFiles"
           => \A resp \in ScenarioKeyFilesResponses :
                  IsStableSortOf(SortByImportance(identifyKeyFiles(resp)),
                                 identifyKeyFiles(resp)))
    /\ [][(pc = "identifyKeyFiles" /\ pc' = "reviewFiles")
          => \E resp \in ScenarioKeyFilesResponses :
                 keyFiles' = SortByImportance(identifyKeyFiles(resp))]_vars
    /\ [][(pc = "reviewFiles" /\ pc' = "loop")
          => /\ reviewedFiles' = {}
             /\ reviewResults' = <<>>
             /\ filesToReview' = PathsOf(keyFiles)
             /\ keyFiles' = keyFiles]_vars
    /\ [](pc \in {"reviewFiles", "loop"} => SeedsSorted)

\* the loop starts with b.py ahead of the less important c.py and a.py,
\* which are of one importance and not in alphabetical order
C23_Witness ==
    /\ pc = "loop"
    /\ oracleCalls = <<Call("classify", ""), Call("rank", "")>>
    /\ keyFiles = <<KeyFile("b.py", MaxImportance), KeyFile("c.py", MinImportance),
                    KeyFile("a.py", MinImportance)>>
    /\ filesToReview = <<"b.py", "c.py", "a.py">>
    /\ reviewedFiles = {}
    /\ reviewResults = <<>>
    /\ filePath = ""

\* the ledger is as before, or as before with one more entry behind it
LedgerKeptOrExtended ==
    \/ reviewResults' = reviewResults
    \/ /\ Len(reviewResults') = Len(reviewResults) + 1
       /\ SubSeq(reviewResults', 1, Len(reviewResults)) = reviewResults

\* C24: every step taken inside the review loop leaves reviewResults as it
\* is or extends it by exactly one entry at the tail; only the review step
\* extends it.
C24_LedgerAppendOnly ==
    /\ [][InLoop => LedgerKeptOrExtended]_vars
    /\ [][(InLoop /\ reviewResults' # reviewResults) => pc = "reviewCode"]_vars

\* a second, different entry was appended behind the first
C24_Witness ==
    /\ pc = "suggestRelatedFiles"
    /\ Len(reviewResults) = 2
    /\ reviewResults[1] # reviewResults[2]
    /\ reviewResults[1].path = "a.py"

\* C25: no step taken while the review loop runs removes a path from the
\* VisitedSet, a step adds at most one path, and the only step that adds
\* one is the admission of the popped head, once per iteration.
C25_VisitedGrows ==
    /\ [][InLoop' => /\ reviewedFiles \subseteq reviewedFiles'
                     /\ Cardinality(reviewedFiles' \ reviewedFiles) <= 1]_vars
    /\ [][(InLoop /\ reviewedFiles' \ reviewedFiles # {})
          => /\ pc = "loop"
             /\ reviewedFiles' = reviewedFiles \cup {Head(filesToReview)}
             /\ filePath' = Head(filesToReview)]_vars

\* the VisitedSet has grown to two paths in two iterations
C25_Witness ==
    /\ pc = "generateFilePrompt"
    /\ reviewedFiles = {"a.py", "b.py"}
    /\ filePath = "b.py"
    /\ Requested = <<"a.py">>

\* C26: while the review loop runs, the path of every entry of the Run
\* Ledger is in the VisitedSet.
C26_LedgerPathsVisited ==
    InLoop => \A i \in DOMAIN reviewResults : reviewResults[i].path \in reviewedFiles

\* the review and suggestion calls of the run, in call order
CycleCalls == SelectSeq(oracleCalls, LAMBDA c : c.op \in {"review", "suggest"})

\* C27: a step makes at most one oracle call; the calls of the review phase
\* come in pairs, the review of a path and then the suggestion for the same
\* path; when the suggestion is asked for, the review call of the cycle has
\* returned and its outcome is in the ledger; at the loop head no call of a
\* cycle is open; and the path in hand changes only at the loop head, after
\* the cycle of the path before it has ended.
C27_Sequential ==
    /\ [](\A i \in DOMAIN CycleCalls :
             IF i % 2 = 1 THEN CycleCalls[i].op = "review"
             ELSE /\ CycleCalls[i].op = "suggest"
                  /\ CycleCalls[i].path = CycleCalls[i - 1].path)
    /\ [](pc = "suggestRelatedFiles"
           => /\ Len(CycleCalls) % 2 = 1
              /\ Last(CycleCalls) = Call("review", filePath)
              /\ Len(reviewResults) = (Len(CycleCalls) + 1) \div 2)
    /\ [](pc \in {"loop", "generateFilePrompt", "reviewCode"}
           => /\ Len(CycleCalls) % 2 = 0
              /\ Len(reviewResults) = Len(CycleCalls) \div 2)
    /\ [][Len(oracleCalls') <= Len(oracleCalls) + 1]_vars
    /\ [][filePath' # filePath => pc = "loop"]_vars

\* the second cycle has its review answered and its suggestion call open,
\* after a first cycle of two calls
C27_Witness ==
    /\ pc = "suggestRelatedFiles"
    /\ CycleCalls = <<Call("review", "a.py"), Call("suggest", "a.py"),
                      Call("review", "b.py")>>
    /\ filePath = "b.py"
    /\ Len(reviewResults) = 2

\* the nodes of the tree that was built
TreeNodes == projectStructure.root.nodes

\* the structure holds a tree
TreeBuilt == pc = "identifyProjectType" /\ ~projectStructure.isNull

\* every node hangs one segment below the directory that holds it
ParentPrefix ==
    TreeBuilt
        => \A i \in DOMAIN TreeNodes :
               /\ Len(TreeNodes[i].path) = Len(TreeNodes[i].parent) + 1
               /\ SubSeq(TreeNodes[i].path, 1, Len(TreeNodes[i].parent))
                      = TreeNodes[i].parent
               /\ \/ TreeNodes[i].parent = <<>>
                  \/ \E j \in 1..(i - 1) :
                         /\ TreeNodes[j].type = "directory"
                         /\ TreeNodes[j].path = TreeNodes[i].parent

\* C28: in the tree built from a list of absolute paths under the root no
\* two nodes have the same path, no node has the path of the root, and the
\* path of every node is prefixed by the path of the node that holds it.
C28_TreeWellFormed ==
    /\ ParentPrefix
    /\ TreeBuilt
           => /\ \A i, j \in DOMAIN TreeNodes :
                      i # j => TreeNodes[i].path # TreeNodes[j].path
              /\ \A i \in DOMAIN TreeNodes : TreeNodes[i].path # <<>>

\* C29: while the review loop runs, the Frontier never holds the same path
\* at two positions.
C29_FrontierNoDuplicates ==
    InLoop => \A i, j \in DOMAIN filesToReview :
                  i # j => filesToReview[i] # filesToReview[j]

\* C30: a cycle that ends in the materialization of its file (the step from
\* generateFilePrompt back to the loop head) leaves the path in the
\* VisitedSet, the Run Ledger, the calls made and the Frontier as they
\* were, and raises no error; no review or suggestion call is ever made for
\* a path whose cycle was skipped; and the next step of a loop that can
\* continue pops the head of the Frontier.
C30_PromptFailureContained ==
    /\ [][(pc = "generateFilePrompt" /\ pc' = "loop")
          => /\ filePath \in reviewedFiles
             /\ reviewedFiles' = reviewedFiles
             /\ reviewResults' = reviewResults
             /\ oracleCalls' = oracleCalls
             /\ filesToReview' = filesToReview
             /\ skipped' = skipped \cup {filePath}
             /\ runError' = ""]_vars
    /\ [](InLoop => /\ skipped \subseteq reviewedFiles
                    /\ \A i \in DOMAIN oracleCalls :
                           oracleCalls[i].op \in {"review", "suggest"}
                               => oracleCalls[i].path \notin skipped)
    /\ [][(pc = "loop" /\ CanContinue(filesToReview, reviewedFiles, maxFilesToReview))
          => /\ filePath' = Head(filesToReview)
             /\ filesToReview' = Tail(filesToReview)
             /\ InLoop']_vars

\* a.py exists and is a file within the size limit, so its cycle was ended
\* by the materialization; b.py waits and the budget lets the loop go on
C30_Witness ==
    /\ pc = "loop"
    /\ filePath = "a.py"
    /\ stat.exists /\ SkipReason(stat) = ""
    /\ skipped = {"a.py"}
    /\ reviewedFiles = {"a.py"}
    /\ filesToReview = <<"b.py">>
    /\ reviewResults = <<>>
    /\ Len(oracleCalls) = 2
    /\ CanContinue(filesToReview, reviewedFiles, maxFilesToReview)

====
